---------------------------- MODULE Spec2Model ----------------------------
(***************************************************************************)
(* Verification model of the movies front-end: the ad-domain classifier,   *)
(* network wrappers and overlay removal of src/src/main.tsx, and the       *)
(* player lifecycle and sanitation passes of                               *)
(* src/src/Components/VideoPlayer/VideoPlayer.tsx as it is mounted by      *)
(* src/src/Components/TrendingSection/TrendingSection.tsx, with the        *)
(* listing's metadata requests and their responses.                        *)
(*                                                                         *)
(* Strings that the code inspects character by character (URLs, domain     *)
(* patterns, texts, class names) are sequences of one-character strings.   *)
(* A function reference (window.fetch, window.open, ...) is a natural      *)
(* number: Native is the browser's own function, and a wrapper is numbered *)
(* as described at the variable that holds it.                             *)
(*                                                                         *)
(* One step of the application is one event handler run to completion: its *)
(* state updates, the React commit they cause and the effect cleanups and  *)
(* setups of that commit.                                                  *)
(***************************************************************************)
EXTENDS Integers, Sequences, FiniteSets, TLC

(***************************************************************************)
(* Bounds of the model.                                                    *)
(***************************************************************************)
\* A URL is the concatenation of at most MaxParts members of UrlParts.
MaxParts == 2

\* initAdBlocker runs at most MaxInstalls times (the load, then enableAdBlocker).
MaxInstalls == 2

\* The player is opened at most MaxSessions times in a run.
MaxSessions == 2

\* One guard session counts at most MaxClicks clicks on the iframe wrapper.
MaxClicks == 2

\* At most MaxOverlays injected overlay elements exist at a time.
MaxOverlays == 1

\* The listing requests, and the watch-provider requests, of one run.
MaxRequests == 2
MaxProviderRequests == 2

(***************************************************************************)
(* main.tsx: the domain lists.                                             *)
(***************************************************************************)
AD_DOMAINS ==
    { <<"d", "o", "u", "b", "l", "e", "c", "l", "i", "c", "k", ".", "n", "e", "t">>,
      <<"g", "o", "o", "g", "l", "e", "s", "y", "n", "d", "i", "c", "a", "t", "i", "o", "n", ".", "c", "o", "m">>,
      <<"g", "o", "o", "g", "l", "e", "a", "d", "s", "e", "r", "v", "i", "c", "e", "s", ".", "c", "o", "m">>,
      <<"a", "d", "s", "e", "r", "v", "i", "c", "e", ".", "g", "o", "o", "g", "l", "e">>,
      <<"a", "d", "s", "a", "f", "e", "p", "r", "o", "t", "e", "c", "t", "e", "d", ".", "c", "o", "m">>,
      <<"a", "d", "v", "e", "r", "t", "i", "s", "i", "n", "g", ".", "c", "o", "m">>,
      <<"a", "d", "n", "x", "s", ".", "c", "o", "m">>,
      <<"a", "d", "s", "r", "v", "r", ".", "o", "r", "g">>,
      <<"a", "d", "t", "e", "c", "h", "u", "s", ".", "c", "o", "m">>,
      <<"a", "m", "a", "z", "o", "n", "-", "a", "d", "s", "y", "s", "t", "e", "m", ".", "c", "o", "m">>,
      <<"a", "d", "f", "o", "r", "m", ".", "n", "e", "t">>,
      <<"a", "d", "i", "t", "i", "o", "n", ".", "c", "o", "m">>,
      <<"a", "d", "z", "e", "r", "k", ".", "n", "e", "t">>,
      <<"o", "p", "e", "n", "x", ".", "n", "e", "t">>,
      <<"p", "u", "b", "m", "a", "t", "i", "c", ".", "c", "o", "m">>,
      <<"r", "u", "b", "i", "c", "o", "n", "p", "r", "o", "j", "e", "c", "t", ".", "c", "o", "m">>,
      <<"s", "c", "o", "r", "e", "c", "a", "r", "d", "r", "e", "s", "e", "a", "r", "c", "h", ".", "c", "o", "m">>,
      <<"o", "u", "t", "b", "r", "a", "i", "n", ".", "c", "o", "m">>,
      <<"t", "a", "b", "o", "o", "l", "a", ".", "c", "o", "m">>,
      <<"a", "d", "s", "y", "s", "t", "e", "m", ".", "c", "o", "m">>,
      <<"a", "d", "s", "r", "v", "r", ".", "c", "o", "m">>,
      <<"a", "d", "s", "e", "r", "v", "e", "r", ".", "c", "o", "m">>,
      <<"a", "d", "s", "e", "r", "v", "e", "r", ".", "n", "e", "t">>,
      <<"a", "d", "s", "e", "r", "v", "e", "r", ".", "o", "r", "g">>,
      <<"a", "d", "t", "e", "c", "h", ".", "c", "o", "m">>,
      <<"c", "r", "i", "t", "e", "o", ".", "c", "o", "m">>,
      <<"m", "e", "d", "i", "a", ".", "n", "e", "t">>,
      <<"b", "i", "d", "s", "w", "i", "t", "c", "h", ".", "n", "e", "t">>,
      <<"c", "a", "s", "a", "l", "e", "m", "e", "d", "i", "a", ".", "c", "o", "m">>,
      <<"s", "m", "a", "r", "t", "a", "d", "s", "e", "r", "v", "e", "r", ".", "c", "o", "m">> }

WHITELIST_DOMAINS ==
    { <<"t", "h", "e", "m", "o", "v", "i", "e", "d", "b", ".", "o", "r", "g">>,
      <<"i", "m", "a", "g", "e", ".", "t", "m", "d", "b", ".", "o", "r", "g">>,
      <<"l", "o", "c", "a", "l", "h", "o", "s", "t">>,
      <<"1", "2", "7", ".", "0", ".", "0", ".", "1">>,
      <<"v", "i", "t", "e">>,
      <<"r", "e", "a", "c", "t">> }

\* Hosts that URLs are built from: a block-listed domain as listed and in
\* mixed case, an allow-listed host and a neutral one.
RequestParts ==
    { <<"d", "o", "u", "b", "l", "e", "c", "l", "i", "c", "k", ".", "n", "e", "t">>,
      <<"D", "o", "u", "b", "l", "e", "C", "l", "i", "c", "k", ".", "N", "E", "T">>,
      <<"a", "p", "i", ".", "t", "h", "e", "m", "o", "v", "i", "e", "d", "b", ".", "o", "r", "g">>,
      <<"e", "x", "a", "m", "p", "l", "e", ".", "c", "o", "m", "/">> }

\* The parts URLs are built from: RequestParts, an allow-listed host in upper
\* case, neutral text, and parts that form a pattern only when joined
\* ("vi" + "te", "Media.N" + "et/ads").
UrlParts ==
    RequestParts \cup
    { <<"h", "t", "t", "p", "s", ":", "/", "/">>,
      <<"L", "O", "C", "A", "L", "H", "O", "S", "T">>,
      <<"v", "i">>,
      <<"t", "e">>,
      <<"M", "e", "d", "i", "a", ".", "N">>,
      <<"e", "t", "/", "a", "d", "s">> }

UpperCase == <<"A", "B", "C", "D", "E", "F", "G", "H", "I", "J", "K", "L", "M", "N", "O", "P", "Q", "R", "S", "T", "U", "V", "W", "X", "Y", "Z">>

LowerCase == <<"a", "b", "c", "d", "e", "f", "g", "h", "i", "j", "k", "l", "m", "n", "o", "p", "q", "r", "s", "t", "u", "v", "w", "x", "y", "z">>


\* The characters of a string.
Chars(str) == [i \in 1..Len(str) |-> SubSeq(str, i, i)]

\* String.prototype.toLowerCase on one character.
ToLowerChar(c) ==
    IF \E i \in 1..Len(UpperCase) : UpperCase[i] = c
    THEN LowerCase[CHOOSE i \in 1..Len(UpperCase) : UpperCase[i] = c]
    ELSE c

\* String.prototype.toLowerCase.
ToLowerCase(s) == [i \in 1..Len(s) |-> ToLowerChar(s[i])]

\* String.prototype.includes: pat occurs in s as a contiguous substring.
Includes(s, pat) ==
    \E i \in 0..(Len(s) - Len(pat)) : SubSeq(s, i + 1, i + Len(pat)) = pat

\* isAdDomain with the allow-list check left out.
IsAdDomainNoWhitelist(url) ==
    IF url = <<>> THEN FALSE
    ELSE LET urlLower == ToLowerCase(url)
         IN  \E domain \in AD_DOMAINS : Includes(urlLower, domain)

\* isAdDomain comparing the URL as written, without lower-casing it.
IsAdDomainCaseSensitive(url) ==
    IF url = <<>> THEN FALSE
    ELSE IF \E domain \in WHITELIST_DOMAINS : Includes(url, domain)
         THEN FALSE
         ELSE \E domain \in AD_DOMAINS : Includes(url, domain)

\* main.tsx isAdDomain.
isAdDomain(url) ==
    IF url = <<>> THEN FALSE
    ELSE LET urlLower == ToLowerCase(url)
         IN  IF \E domain \in WHITELIST_DOMAINS : Includes(urlLower, domain)
             THEN FALSE
             ELSE \E domain \in AD_DOMAINS : Includes(urlLower, domain)

RECURSIVE UrlsOfParts(_, _)
\* The URLs made of exactly n members of parts.
UrlsOfParts(parts, n) ==
    IF n = 0 THEN { <<>> }
    ELSE { u \o p : u \in UrlsOfParts(parts, n - 1), p \in parts }

\* The URLs the classifier is applied to.
Urls == UNION { UrlsOfParts(UrlParts, n) : n \in 0..MaxParts }


(***************************************************************************)
(* The state.                                                              *)
(***************************************************************************)
VARIABLES
    url,              \* the URL handed to isAdDomain
    classified,       \* isAdDomain has returned for url
    isAd,             \* what it returned
    loaded,           \* main.tsx has run: initAdBlocker(), then render
    adBlockerEnabled, \* main.tsx adBlockerEnabled
    fetchFn,          \* window.fetch: wrapper layers around the native function
    xhrOpenFn,        \* XMLHttpRequest.prototype.open: wrapper layers
    createElementFn,  \* document.createElement: wrapper layers
    adObservers,      \* MutationObservers connected by observeAdElements
    fetchCall,        \* the last network call when it was window.fetch(input, init)
    xhrCall,          \* the last network call when it was XMLHttpRequest's open
    element,          \* the element the page's scripts created and assign to
    assignment,       \* the last assignment to an attribute of element
    activeTab,        \* App state
    searchQuery,      \* App state
    selectedGenre,    \* App state, NoGenre for null
    selected,         \* TrendingSection state: the selected movie's id, NoMovie for null
    isPlayerOpen,     \* TrendingSection state
    currentServer,    \* VideoPlayer state
    page,             \* the document, window and VideoPlayer refs and closures
    nextSession,      \* the number the next run of the isOpen effects gets
    openResult,       \* what the last call of window.open returned
    openGuarded,      \* the player was open when window.open was last called
    fullscreenPurge,  \* what the last fullscreen-change event did: "purged", "skipped"
    el,               \* the element the sanitation passes meet
    removedBy,        \* the pass that detached it, "" for none
    pendingRemove,    \* the player's MutationObserver has a removal timeout pending
    lastPass,         \* the pass that ran last, "none" for none
    movies,           \* the listing's movies: <<>>, or the results of a listing URL
    loading,          \* the listing's loading flag
    issued,           \* the number of listing requests made
    listingRequests,  \* the listing requests whose response is awaited
    watchProviders,   \* <<>> for null, or the US providers of a movie
    providerRequests, \* the movies whose watch-provider response is awaited
    providersIssued,  \* the number of watch-provider requests made
    unhandled,        \* a promise rejection was left unhandled
    answering,        \* the metadata requests of this run get responses
    frames,           \* the document's iframes in document order
    thrown            \* the pass that ran last let an exception escape

classifierVars == <<url, classified, isAd>>

blockerVars ==
    <<loaded, adBlockerEnabled, fetchFn, xhrOpenFn, createElementFn, adObservers,
      fetchCall, xhrCall, element, assignment>>

filterVars == <<activeTab, searchQuery, selectedGenre>>

listingVars ==
    <<movies, loading, issued, listingRequests, watchProviders, providerRequests,
      providersIssued, unhandled, answering>>

playerVars == <<selected, isPlayerOpen, currentServer, page, nextSession>>

callVars == <<openResult, openGuarded, fullscreenPurge>>

domVars == <<el, removedBy, pendingRemove, lastPass, frames, thrown>>

vars == <<classifierVars, blockerVars, filterVars, listingVars, playerVars, callVars, domVars>>

\* The browser's own function, unwrapped.
Native == 0

\* selected = null.
NoMovie == 0

\* selectedGenre = null.
NoGenre == 0

\* The movies of the listing.
MovieIds == {5, 7, 42}

Tabs == {"home", "new", "popular"}

Queries == {"", "dune"}

Genres == {NoGenre, 27}

\* VideoPlayer.tsx serverConfig.
serverConfig ==
    [ vidnest  |-> "https://vidnest.fun",
      cinemaos |-> "https://cinemaos.tech",
      videasy  |-> "https://player.videasy.net",
      vidora   |-> "https://vidora.su" ]

Servers == DOMAIN serverConfig

\* useState<keyof typeof serverConfig>('vidnest').
DefaultServer == "vidnest"

\* The iframe src effect's path, always the /movie/ form.
PathAlwaysMovie(server, movieId) == <<"/movie/", movieId>>

\* The path of the iframe src effect: `/player/${movieId}` or `/movie/${movieId}`.
PlayerPath(server, movieId) ==
    IF server = "cinemaos" THEN <<"/player/", movieId>> ELSE <<"/movie/", movieId>>

\* base + path of the iframe src effect.
ComposeSrc(server, movieId) == <<serverConfig[server]>> \o PlayerPath(server, movieId)

\* The document before the application has rendered anything.
InitPage ==
    [ windowOpen          |-> Native,  \* window.open: Native, or s for the override of session s
      overflow            |-> "",      \* document.body.style.overflow
      styleInjected       |-> FALSE,   \* <style id="ad-blocker-styles"> is in the head
      observers           |-> {},      \* sessions whose player MutationObserver is connected
      overlayIntervals    |-> {},      \* sessions whose startAggressiveOverlayRemoval interval runs
      immediateIntervals  |-> {},      \* sessions whose removePopups interval runs
      clickListeners      |-> {},      \* sessions whose handleWrapperClick is registered
      fullscreenListeners |-> {},      \* sessions whose handleFullscreenChange is registered
      timeouts            |-> {},      \* pending setTimeout callbacks <<kind, session, element>>
      attached            |-> {},      \* injected overlay elements in the document
      iframe              |-> FALSE,   \* the player's iframe is rendered
      iframeSrc           |-> <<>>,    \* its src, <<>> for ""
      popupWindows        |-> <<>>,    \* popupWindowsRef.current
      popupsClosed        |-> 0,       \* history: the popup.close() calls made so far
      overlayIntervalRef  |-> 0,       \* overlayIntervalRef.current, 0 for null
      effect              |-> 0,       \* the session whose effect cleanups React holds, 0 for none
      originalWindowOpen  |-> Native,  \* the popup guard's originalWindowOpen
      clickCount          |-> 0,       \* the popup guard's clickCount
      fullscreen          |-> FALSE,   \* the document has a fullscreen element
      opener              |-> FALSE,   \* window.opener is set: a script opened this window
      closed              |-> FALSE,   \* window.close() has closed this window
      openedFor           |-> NoMovie ] \* history: the movie the running session began with

(***************************************************************************)
(* VideoPlayer.tsx: the effects keyed on [isOpen], as setup and cleanup    *)
(* functions of the page.  s is the number of this run of the effects.     *)
(***************************************************************************)
\* Lock body scroll when player is open: the effect body.
ScrollLockSetup(p, isOpen) ==
    [p EXCEPT !.overflow = IF isOpen THEN "hidden" ELSE ""]

\* The scroll effect's cleanup, leaving the lock in place.
ScrollLockCleanupKeeps(p) == p

\* The scroll effect's cleanup.
ScrollLockCleanup(p) == [p EXCEPT !.overflow = ""]

\* Start aggressive overlay removal: inject the style, connect the observer,
\* start the interval and keep its id in overlayIntervalRef.
OverlayEffectSetup(p, isOpen, s) ==
    IF ~isOpen THEN p
    ELSE [p EXCEPT !.styleInjected = TRUE,
                   !.observers = @ \cup {s},
                   !.overlayIntervals = @ \cup {s},
                   !.overlayIntervalRef = s]

\* The overlay effect's cleanup without observer.disconnect().
OverlayEffectCleanupNoDisconnect(p, s) ==
    [p EXCEPT !.overlayIntervals =
                  IF p.overlayIntervalRef # 0 THEN @ \ {p.overlayIntervalRef} ELSE @]

\* The overlay effect's cleanup: clearInterval(overlayIntervalRef.current)
\* when it is set, observer.disconnect().
OverlayEffectCleanup(p, s) ==
    [p EXCEPT !.overlayIntervals =
                  IF p.overlayIntervalRef # 0 THEN @ \ {p.overlayIntervalRef} ELSE @,
              !.observers = @ \ {s}]

\* Immediate popup removal on player open: removePopups() once, then every
\* 100 ms.  The injected overlays of this model are hidden by the observer
\* callback as they are inserted, and removePopups skips hidden elements.
ImmediateSweepSetup(p, isOpen, s) ==
    IF ~isOpen THEN p
    ELSE [p EXCEPT !.immediateIntervals = @ \cup {s}]

\* The immediate sweep's cleanup without clearInterval.
ImmediateSweepCleanupKeeps(p, s) == p

\* clearInterval(immediateInterval).
ImmediateSweepCleanup(p, s) == [p EXCEPT !.immediateIntervals = @ \ {s}]

\* The popup guard without the window.open override.
PopupGuardSetupNoOverride(p, isOpen, s) ==
    IF ~isOpen THEN p
    ELSE [p EXCEPT !.originalWindowOpen = p.windowOpen,
                   !.clickCount = 0,
                   !.clickListeners = IF p.iframe THEN @ \cup {s} ELSE @]

\* Block popups on click/play: capture window.open, override it, start the
\* click counter and listen for clicks on the iframe's parent.
PopupGuardSetup(p, isOpen, s) ==
    IF ~isOpen THEN p
    ELSE [p EXCEPT !.originalWindowOpen = p.windowOpen,
                   !.clickCount = 0,
                   !.windowOpen = s,
                   !.clickListeners = IF p.iframe THEN @ \cup {s} ELSE @]

\* The popup guard's cleanup without the restore of window.open.
PopupGuardCleanupNoRestore(p, s) == [p EXCEPT !.clickListeners = @ \ {s}]

\* The popup guard's cleanup: window.open = originalWindowOpen, and the
\* click listener removed.
PopupGuardCleanup(p, s) ==
    [p EXCEPT !.windowOpen = p.originalWindowOpen,
              !.clickListeners = @ \ {s}]

\* Monitor fullscreen changes: the four addEventListener calls.
FullscreenSetup(p, isOpen, s) ==
    IF ~isOpen THEN p
    ELSE [p EXCEPT !.fullscreenListeners = @ \cup {s}]

\* The four removeEventListener calls.
FullscreenCleanup(p, s) == [p EXCEPT !.fullscreenListeners = @ \ {s}]

\* Set iframe src when opened / server changes.
IframeSrcEffect(p, isOpen, server, movieId) ==
    IF ~isOpen \/ ~p.iframe THEN p
    ELSE [p EXCEPT !.iframeSrc = ComposeSrc(server, movieId)]

\* The cleanups of the guard effects that were set up with isOpen true, in
\* the order of their declaration; the closures of that run are dropped.
GuardCleanups(p) ==
    IF p.effect = 0 THEN p
    ELSE LET s  == p.effect
             p1 == OverlayEffectCleanup(p, s)
             p2 == ImmediateSweepCleanup(p1, s)
             p3 == PopupGuardCleanup(p2, s)
             p4 == FullscreenCleanup(p3, s)
         IN  [p4 EXCEPT !.effect = 0, !.originalWindowOpen = Native, !.clickCount = 0]

\* The setups of the guard effects, in the order of their declaration.
GuardSetups(p, isOpen, s) ==
    LET p1 == OverlayEffectSetup(p, isOpen, s)
        p2 == ImmediateSweepSetup(p1, isOpen, s)
        p3 == PopupGuardSetup(p2, isOpen, s)
        p4 == FullscreenSetup(p3, isOpen, s)
    IN  [p4 EXCEPT !.effect = IF isOpen THEN s ELSE 0]

\* What VideoPlayer renders: the iframe, with src="", exactly when it is
\* mounted with isOpen true ("if (!isOpen) return null").
Render(p, mounted, isOpen) ==
    LET shown == mounted /\ isOpen
    IN  [p EXCEPT !.iframe = shown,
                  !.iframeSrc = IF shown /\ p.iframe THEN @ ELSE <<>>]

\* One React commit of the VideoPlayer mounted at TrendingSection.tsx 226-235:
\* from (mounted m0, isOpen o0, server and movie k0) to (m1, o1, k1).  On an
\* update every cleanup of an effect whose dependencies changed runs before
\* any setup.  Effects run once per mount, as in a production build; the
\* replay of StrictMode in development is a cleanup followed by a setup.
Commit(p, m0, o0, k0, m1, o1, k1, s) ==
    LET r == Render(p, m1, o1)
    IN  IF ~m1
        THEN IF ~m0 THEN r
             ELSE [GuardCleanups(ScrollLockCleanup(r)) EXCEPT
                       !.overlayIntervalRef = 0, !.popupWindows = <<>>]
        ELSE IF ~m0
        THEN IframeSrcEffect(GuardSetups(ScrollLockSetup(r, o1), o1, s), o1, k1[1], k1[2])
        ELSE IF o0 # o1
        THEN IframeSrcEffect(
                 GuardSetups(ScrollLockSetup(GuardCleanups(ScrollLockCleanup(r)), o1), o1, s),
                 o1, k1[1], k1[2])
        ELSE IF k0 # k1
        THEN IframeSrcEffect(r, o1, k1[1], k1[2])
        ELSE r

\* closeAllPopups: close the tracked windows and empty the list, then
\* "if (window.opener) window.close()", which closes the application's own
\* window when a script opened it.
closeAllPopups(p) ==
    [p EXCEPT !.popupWindows = <<>>,
              !.popupsClosed = @ + Len(p.popupWindows),
              !.closed = @ \/ p.opener]

\* The state updates of one event handler (setSelected, setIsPlayerOpen,
\* setCurrentServer) applied to page p, and the commit they cause.  A newly
\* mounted VideoPlayer starts on DefaultServer.  No handler runs in a window
\* that was closed before the event.
Update(p, sel, open, server) ==
    LET m0     == selected # NoMovie
        m1     == sel # NoMovie
        srv    == IF m0 /\ m1 THEN server ELSE DefaultServer
        begins == m1 /\ open /\ ~(m0 /\ isPlayerOpen)
    IN  /\ ~page.closed
        /\ begins => nextSession <= MaxSessions
        /\ selected' = sel
        /\ isPlayerOpen' = open
        /\ currentServer' = srv
        /\ page' = [Commit(p, m0, isPlayerOpen, <<currentServer, selected>>,
                           m1, open, <<srv, sel>>, nextSession)
                       EXCEPT !.openedFor = IF begins THEN sel
                                            ELSE IF m1 /\ open THEN @ ELSE NoMovie]
        /\ nextSession' = IF begins THEN nextSession + 1 ELSE nextSession

(***************************************************************************)
(* main.tsx: the installation of the network wrappers.                     *)
(***************************************************************************)
\* No element has been created by the page's scripts.
NotCreated == <<>>

\* The wrappers set __adBlockerOverridden on themselves: a function carries
\* the marker exactly when it is a wrapper.
HasMarker(fn) == fn # Native

\* blockAdScripts: document.createElement is wrapped, whatever it is.
blockAdScripts(fn) == fn + 1

\* blockAdRequests on window.fetch or XMLHttpRequest.prototype.open: wrapped
\* unless it carries the marker.
blockAdRequests(fn) == IF HasMarker(fn) THEN fn ELSE fn + 1

\* initAdBlocker: blockAdScripts, blockAdRequests, removeAdElements (one
\* sweep by AD_SELECTORS 500 ms later, which is not modelled),
\* observeAdElements.
initAdBlocker ==
    /\ createElementFn' = blockAdScripts(createElementFn)
    /\ fetchFn' = blockAdRequests(fetchFn)
    /\ xhrOpenFn' = blockAdRequests(xhrOpenFn)
    /\ adObservers' = adObservers + 1

(***************************************************************************)
(* TrendingSection.tsx: the metadata requests.                             *)
(***************************************************************************)
\* searchQuery.trim() is the empty string.
IsBlank(query) == \A i \in 1..Len(query) : SubSeq(query, i, i) = " "

\* The URL fetchMovies builds, as its endpoint and parameters.
ListingUrl(tab, query, genre) ==
    IF ~IsBlank(query)
    THEN [endpoint |-> "search/movie", query |-> query, genre |-> genre, sort |-> ""]
    ELSE IF genre # NoGenre
    THEN [endpoint |-> "discover/movie", query |-> "", genre |-> genre,
          sort |-> IF tab = "new" THEN "release_date.desc" ELSE "popularity.desc"]
    ELSE [endpoint |-> CASE tab = "home" -> "trending/movie/week"
                         [] tab = "new" -> "movie/upcoming"
                         [] tab = "popular" -> "movie/popular"
                         [] OTHER -> "",
          query |-> "", genre |-> NoGenre, sort |-> ""]

\* The empty list of movies.
NoMovies == <<>>

\* The movies mapped from the results list upstream holds for a URL, named
\* by the URL.
Results(u) == <<u>>

\* watchProviders is null.
NoProviders == <<>>

\* data.results.US of the watch providers of a movie, named by the movie.
ProvidersOf(movieId) == <<movieId>>

\* What a metadata request comes to: a body with a results list, a body
\* without one (an error body of the API), a body whose results have no US
\* entry, or a rejected fetch or json() promise.
ListingOutcomes == {"results", "noResults", "rejected"}
ProviderOutcomes == {"results", "noUS", "noResults", "rejected"}

\* fetchMovies up to its first await: setLoading(true) and fetch(url).  A
\* request that never gets a response changes nothing later, and is neither
\* kept nor counted.
fetchMovies(tab, query, genre) ==
    /\ answering => issued < MaxRequests
    /\ issued' = IF answering THEN issued + 1 ELSE issued
    /\ loading' = TRUE
    /\ listingRequests' =
           IF answering
           THEN listingRequests \cup {[n |-> issued + 1, url |-> ListingUrl(tab, query, genre)]}
           ELSE listingRequests
    /\ UNCHANGED <<movies, watchProviders, providerRequests, providersIssued, unhandled,
                   answering>>

\* fetchMovies after its awaits, for request r: setMovies(mapped) with
\* data.results || [], or setMovies([]) in the catch; setLoading(false) in
\* the finally.
ListingResponse(r, outcome) ==
    /\ r \in listingRequests
    /\ listingRequests' = listingRequests \ {r}
    /\ movies' = IF outcome = "results" THEN Results(r.url) ELSE NoMovies
    /\ loading' = FALSE
    /\ UNCHANGED <<issued, watchProviders, providerRequests, providersIssued, unhandled,
                   answering, classifierVars, domVars, blockerVars, filterVars, playerVars, callVars>>

\* handleMovieClick after setSelected, up to its first await: fetch of the
\* movie's watch providers.  A request that never gets a response is
\* neither kept nor counted.
fetchWatchProviders(movieId) ==
    /\ answering => providersIssued < MaxProviderRequests
    /\ providersIssued' = IF answering THEN providersIssued + 1 ELSE providersIssued
    /\ providerRequests' =
           IF answering THEN providerRequests \cup {movieId} ELSE providerRequests
    /\ UNCHANGED <<movies, loading, issued, listingRequests, watchProviders, unhandled,
                   answering>>

\* handleMovieClick after its awaits, for the request of movieId:
\* setWatchProviders(data.results?.US || null).  A rejection of fetch or of
\* json() rejects the promise handleMovieClick returned, which the onClick
\* arrow dropped.
ProvidersResponse(movieId, outcome) ==
    /\ movieId \in providerRequests
    /\ providerRequests' = providerRequests \ {movieId}
    /\ watchProviders' = IF outcome = "rejected" THEN watchProviders
                         ELSE IF outcome = "results" THEN ProvidersOf(movieId)
                         ELSE NoProviders
    /\ unhandled' = (unhandled \/ outcome = "rejected")
    /\ UNCHANGED <<movies, loading, issued, listingRequests, providersIssued,
                   answering, classifierVars, domVars, blockerVars, filterVars, playerVars, callVars>>

\* main.tsx lines 8-14: initAdBlocker(), then the first render of App.  The
\* first run of TrendingSection's clear effect sets selected to null, which
\* it is, and the first run of its fetch effect requests the listing.
Load ==
    /\ ~loaded
    /\ loaded' = TRUE
    /\ initAdBlocker
    /\ fetchMovies(activeTab, searchQuery, selectedGenre)
    /\ UNCHANGED <<adBlockerEnabled, fetchCall, xhrCall, element, assignment, classifierVars, domVars, filterVars, playerVars, callVars>>

\* enableAdBlocker.
EnableAdBlocker ==
    /\ loaded
    /\ createElementFn < MaxInstalls
    /\ adBlockerEnabled' = TRUE
    /\ initAdBlocker
    /\ UNCHANGED <<loaded, fetchCall, xhrCall, element, assignment, classifierVars, domVars, filterVars, listingVars, playerVars, callVars>>

\* disableAdBlocker.
DisableAdBlocker ==
    /\ loaded
    /\ adBlockerEnabled
    /\ adBlockerEnabled' = FALSE
    /\ UNCHANGED <<loaded, fetchFn, xhrOpenFn, createElementFn, adObservers, fetchCall, xhrCall, element, assignment,
                   classifierVars, domVars, filterVars, listingVars, playerVars, callVars>>

\* No call of the function has been made.
NoCall == <<>>

\* An argument the caller left out.
Undefined == "undefined"

\* The URLs the page's scripts request: none, an ad server's, an ad server's
\* in upper case, the movie database's with an ad server's name in the
\* query, a player's.
CallUrls ==
    { <<>>,
      Chars("https://ads.doubleclick.net/pixel"),
      Chars("HTTPS://PAGEAD2.GOOGLESYNDICATION.COM/x.js"),
      Chars("https://api.themoviedb.org/3/movie/7?ref=doubleclick.net"),
      Chars("https://vidnest.fun/movie/7") }

\* The first argument of fetch: a string, a URL or a Request.
FetchInputs ==
    { [ kind  |-> k,
        value |-> IF k = "string" THEN u ELSE <<>>,
        href  |-> IF k = "URL" THEN u ELSE <<>>,
        url   |-> IF k = "Request" THEN u ELSE <<>> ] :
      k \in {"string", "URL", "Request"}, u \in CallUrls }

\* The second argument of fetch.
FetchInits == {Undefined, "POST"}

\* typeof input === 'string' ? input : input instanceof URL ? input.href : input.url
FetchUrl(input) ==
    IF input.kind = "string" THEN input.value
    ELSE IF input.kind = "URL" THEN input.href
    ELSE input.url

\* A fetch that hands every call to the function it wrapped.
FetchUnfiltered(fn, input, init) ==
    [settled |-> "native", error |-> "", native |-> << <<input, init>> >>]

RECURSIVE Fetch(_, _, _)
\* window.fetch(input, init) when window.fetch is fn.  The native function
\* is invoked with (input, init) and its promise is what the caller gets; a
\* wrapper returns Promise.reject(new Error('Ad blocked')) when
\* isAdDomain(url), and otherwise returns what the function it wrapped
\* returns.  native lists the invocations of the native function.
Fetch(fn, input, init) ==
    IF fn = Native
    THEN [settled |-> "native", error |-> "", native |-> << <<input, init>> >>]
    ELSE IF isAdDomain(FetchUrl(input))
    THEN [settled |-> "rejected", error |-> "Ad blocked", native |-> <<>>]
    ELSE Fetch(fn - 1, input, init)

\* Some script calls window.fetch(input, init).
CallFetch(input, init) ==
    /\ fetchCall = NoCall
    /\ xhrCall = NoCall
    /\ fetchCall' = [fn |-> fetchFn, input |-> input, init |-> init,
                     result |-> Fetch(fetchFn, input, init)]
    /\ UNCHANGED <<loaded, adBlockerEnabled, fetchFn, xhrOpenFn, createElementFn, adObservers,
                   xhrCall, element, assignment, classifierVars, domVars, filterVars, listingVars, playerVars, callVars>>

\* The url argument of open: a string or a URL.
XhrUrls ==
    { [ kind  |-> k,
        value |-> IF k = "string" THEN u ELSE <<>>,
        href  |-> IF k = "URL" THEN u ELSE <<>> ] :
      k \in {"string", "URL"}, u \in CallUrls }

\* The async, username and password arguments of open.
XhrAsyncs == {Undefined, "true", "false"}

XhrUsernames == {Undefined, "user"}

XhrPasswords == {Undefined, "null", "secret"}

\* a ?? d
Nullish(a, d) == IF a = Undefined \/ a = "null" THEN d ELSE a

\* An open that hands its arguments on as they came.
XhrOpenNoDefaults(fn, method, u, async, username, password) ==
    IF fn # Native /\ isAdDomain(IF u.kind = "string" THEN u.value ELSE u.href)
    THEN [returned |-> Undefined, threw |-> FALSE, native |-> <<>>]
    ELSE [returned |-> Undefined, threw |-> FALSE,
          native |-> << <<method, u, async, username, password>> >>]

RECURSIVE XhrOpen(_, _, _, _, _, _)
\* xhr.open(method, u, async, username, password) when
\* XMLHttpRequest.prototype.open is fn.  native lists the invocations of the
\* native function with their arguments.
XhrOpen(fn, method, u, async, username, password) ==
    IF fn = Native
    THEN [returned |-> Undefined, threw |-> FALSE,
          native |-> << <<method, u, async, username, password>> >>]
    ELSE LET urlString == IF u.kind = "string" THEN u.value ELSE u.href
         IN  IF isAdDomain(urlString)
             THEN [returned |-> Undefined, threw |-> FALSE, native |-> <<>>]
             ELSE XhrOpen(fn - 1, method, u, Nullish(async, "true"),
                          Nullish(username, "null"), Nullish(password, "null"))

\* Some script calls open on an XMLHttpRequest.
CallXhrOpen(method, u, async, username, password) ==
    /\ fetchCall = NoCall
    /\ xhrCall = NoCall
    /\ xhrCall' = [fn |-> xhrOpenFn, method |-> method, url |-> u, async |-> async,
                   username |-> username, password |-> password,
                   result |-> XhrOpen(xhrOpenFn, method, u, async, username, password)]
    /\ UNCHANGED <<loaded, adBlockerEnabled, fetchFn, xhrOpenFn, createElementFn, adObservers,
                   fetchCall, element, assignment, classifierVars, domVars, filterVars, listingVars, playerVars, callVars>>

\* The tag names the page's scripts create elements of.
TagNames == { Chars("script"), Chars("SCRIPT"), Chars("img") }

\* The attribute names the page's scripts set.
AttributeNames == { Chars("src"), Chars("id") }

\* The native setAttribute(name, value) on e; of the attributes only src is
\* kept.
NativeSetAttribute(e, name, value) ==
    IF name = Chars("src") THEN [e EXCEPT !.src = value] ELSE e

\* A setAttribute that hands every call to the native one.
SetAttributeUnfiltered(layers, e, name, value) == NativeSetAttribute(e, name, value)

RECURSIVE setAttribute(_, _, _, _)
\* e.setAttribute(name, value) when the element's setAttribute has been
\* replaced `layers` times: each replacement returns without a call when
\* name === 'src' && isAdDomain(value), and calls the function it replaced
\* otherwise.
setAttribute(layers, e, name, value) ==
    IF layers = 0 THEN NativeSetAttribute(e, name, value)
    ELSE IF name = Chars("src") /\ isAdDomain(value) THEN e
    ELSE setAttribute(layers - 1, e, name, value)

\* e.src = value.  The accessor that blockAdScripts defines keeps the value
\* in _src and calls the native setAttribute it bound; without the accessor
\* the native setter runs.
assignSrc(e, value) ==
    IF e.srcAccessor
    THEN IF isAdDomain(value) THEN [e EXCEPT !.shadowSrc = <<>>]
         ELSE [NativeSetAttribute(e, Chars("src"), value) EXCEPT !.shadowSrc = value]
    ELSE [e EXCEPT !.src = value]

RECURSIVE createElement(_, _)
\* document.createElement(tagName) when document.createElement is fn.  Each
\* wrapper replaces the setAttribute of a script element and defines its src
\* accessor; Object.defineProperty throws on an element that has the
\* accessor, and the wrapper ignores that.  src is the element's src
\* attribute, shadowSrc its _src, both empty when unset.
createElement(fn, tagName) ==
    IF fn = Native
    THEN [ tagName |-> tagName, createdWith |-> fn, setAttributeLayers |-> 0,
           srcAccessor |-> FALSE, src |-> <<>>, shadowSrc |-> <<>> ]
    ELSE LET created == createElement(fn - 1, tagName)
         IN  IF ToLowerCase(tagName) = Chars("script")
             THEN [created EXCEPT !.createdWith = fn,
                                  !.setAttributeLayers = @ + 1,
                                  !.srcAccessor = TRUE]
             ELSE [created EXCEPT !.createdWith = fn]

\* Some script calls document.createElement(tagName).
CallCreateElement(tagName) ==
    /\ element' = createElement(createElementFn, tagName)
    /\ assignment' = NoCall
    /\ UNCHANGED <<loaded, adBlockerEnabled, fetchFn, xhrOpenFn, createElementFn, adObservers,
                   fetchCall, xhrCall, classifierVars, domVars, filterVars, listingVars, playerVars, callVars>>

\* Some script calls element.setAttribute(name, value).
CallSetAttribute(name, value) ==
    /\ element # NotCreated
    /\ element' = setAttribute(element.setAttributeLayers, element, name, value)
    /\ assignment' = [via |-> "setAttribute", name |-> name, value |-> value, before |-> element]
    /\ UNCHANGED <<loaded, adBlockerEnabled, fetchFn, xhrOpenFn, createElementFn, adObservers,
                   fetchCall, xhrCall, classifierVars, domVars, filterVars, listingVars, playerVars, callVars>>

\* Some script assigns element.src = value.
AssignSrc(value) ==
    /\ element # NotCreated
    /\ element' = assignSrc(element, value)
    /\ assignment' = [via |-> "property", name |-> Chars("src"), value |-> value, before |-> element]
    /\ UNCHANGED <<loaded, adBlockerEnabled, fetchFn, xhrOpenFn, createElementFn, adObservers,
                   fetchCall, xhrCall, classifierVars, domVars, filterVars, listingVars, playerVars, callVars>>

\* The caller is done with the result of its call.
CallReturns ==
    /\ fetchCall # NoCall \/ xhrCall # NoCall
    /\ fetchCall' = NoCall
    /\ xhrCall' = NoCall
    /\ UNCHANGED <<loaded, adBlockerEnabled, fetchFn, xhrOpenFn, createElementFn, adObservers,
                   element, assignment, classifierVars, domVars, filterVars, listingVars, playerVars, callVars>>

(***************************************************************************)
(* App.tsx, Header.tsx, TrendingSection.tsx: the listing's events.         *)
(***************************************************************************)
\* TrendingSection's effect on [activeTab, searchQuery, selectedGenre]:
\* setSelected(null), which unmounts a mounted VideoPlayer.
ClearSelected == Update(page, NoMovie, isPlayerOpen, currentServer)

\* Header: onTabChange(tab), and the two effects on the new filters.
TabChange(tab) ==
    /\ loaded
    /\ tab # activeTab
    /\ activeTab' = tab
    /\ ClearSelected
    /\ fetchMovies(tab, searchQuery, selectedGenre)
    /\ UNCHANGED <<searchQuery, selectedGenre, classifierVars, domVars, blockerVars, callVars>>

\* Header: onSearchChange(query), and the two effects on the new filters.
SearchChange(query) ==
    /\ loaded
    /\ query # searchQuery
    /\ searchQuery' = query
    /\ ClearSelected
    /\ fetchMovies(activeTab, query, selectedGenre)
    /\ UNCHANGED <<activeTab, selectedGenre, classifierVars, domVars, blockerVars, callVars>>

\* Header: onGenreChange(genre), and the two effects on the new filters.
GenreChange(genre) ==
    /\ loaded
    /\ genre # selectedGenre
    /\ selectedGenre' = genre
    /\ ClearSelected
    /\ fetchMovies(activeTab, searchQuery, genre)
    /\ UNCHANGED <<activeTab, searchQuery, classifierVars, domVars, blockerVars, callVars>>

\* A movie click that runs the cleanups of the guard effects first.
MovieClickReopens(movieId) ==
    /\ loaded
    /\ Update(GuardCleanups(page), movieId, isPlayerOpen, currentServer)
    /\ fetchWatchProviders(movieId)
    /\ UNCHANGED <<classifierVars, domVars, blockerVars, filterVars, callVars>>

\* handleMovieClick, for the card of any movie: setSelected(movie), then the
\* request of its watch providers.
MovieClick(movieId) ==
    /\ loaded
    /\ Update(page, movieId, isPlayerOpen, currentServer)
    /\ fetchWatchProviders(movieId)
    /\ UNCHANGED <<classifierVars, domVars, blockerVars, filterVars, callVars>>

\* The Watch Now button of the details pane: setIsPlayerOpen(true).
WatchNow ==
    /\ loaded
    /\ selected # NoMovie
    /\ Update(page, selected, TRUE, currentServer)
    /\ UNCHANGED <<classifierVars, domVars, blockerVars, filterVars, listingVars, callVars>>

\* The Close button of the details pane: setSelected(null).
DetailsClose ==
    /\ loaded
    /\ selected # NoMovie
    /\ Update(page, NoMovie, isPlayerOpen, currentServer)
    /\ UNCHANGED <<classifierVars, domVars, blockerVars, filterVars, listingVars, callVars>>

(***************************************************************************)
(* VideoPlayer.tsx: the player's events.                                   *)
(***************************************************************************)
\* handleClose: closeAllPopups(), clearInterval(overlayIntervalRef.current)
\* when set, onClose() = setIsPlayerOpen(false).
handleClose ==
    /\ page.iframe
    /\ LET p1 == closeAllPopups(page)
           p2 == [p1 EXCEPT !.overlayIntervals =
                      IF p1.overlayIntervalRef # 0 THEN @ \ {p1.overlayIntervalRef} ELSE @]
       IN  Update(p2, selected, FALSE, currentServer)
    /\ UNCHANGED <<classifierVars, domVars, blockerVars, filterVars, listingVars, callVars>>

\* A provider switch that leaves the iframe as it is.
HandleServerChangeStale(server) ==
    /\ page.iframe
    /\ currentServer' = server
    /\ page' = closeAllPopups(page)
    /\ UNCHANGED <<selected, isPlayerOpen, nextSession,
                   classifierVars, domVars, blockerVars, filterVars, listingVars, callVars>>

\* handleServerChange: setCurrentServer(server), closeAllPopups().
handleServerChange(server) ==
    /\ page.iframe
    /\ Update(closeAllPopups(page), selected, isPlayerOpen, server)
    /\ UNCHANGED <<classifierVars, domVars, blockerVars, filterVars, listingVars, callVars>>

\* A wrapper click that schedules the purge whatever the count is.
HandleWrapperClickAlways(s) ==
    /\ ~page.closed
    /\ s \in page.clickListeners
    /\ page.clickCount < MaxClicks
    /\ page' = [page EXCEPT !.clickCount = @ + 1,
                            !.timeouts = @ \cup {<<"purge", s, 0>>}]
    /\ UNCHANGED <<selected, isPlayerOpen, currentServer, nextSession,
                   classifierVars, domVars, blockerVars, filterVars, listingVars, callVars>>

\* handleWrapperClick of session s: clickCount++, and on the first click
\* setTimeout(closeAllPopups, 100).
handleWrapperClick(s) ==
    /\ ~page.closed
    /\ s \in page.clickListeners
    /\ page.clickCount < MaxClicks
    /\ page' = [page EXCEPT
                   !.clickCount = @ + 1,
                   !.timeouts = IF page.clickCount + 1 = 1
                                THEN @ \cup {<<"purge", s, 0>>} ELSE @]
    /\ UNCHANGED <<selected, isPlayerOpen, currentServer, nextSession,
                   classifierVars, domVars, blockerVars, filterVars, listingVars, callVars>>

\* A fullscreen-change event whose handlers purge also when the document
\* left fullscreen.
HandleFullscreenChangeAlways(isFullscreen) ==
    /\ ~page.closed
    /\ isFullscreen # page.fullscreen
    /\ isFullscreen => page.iframe
    /\ LET q     == [page EXCEPT !.fullscreen = isFullscreen]
           purge == q.fullscreenListeners # {}
       IN  /\ page' = IF purge THEN closeAllPopups(q) ELSE q
           /\ fullscreenPurge' = IF purge THEN "purged" ELSE "skipped"
    /\ UNCHANGED <<selected, isPlayerOpen, currentServer, nextSession,
                   classifierVars, domVars, blockerVars, filterVars, listingVars,
                   openResult, openGuarded>>

\* A fullscreen-change event: the document entered (isFullscreen) or left
\* fullscreen; only the player's iframe is ever made fullscreen.  Every
\* registered handleFullscreenChange reads the four vendor properties and
\* calls closeAllPopups() "if (isFullscreen)".
handleFullscreenChange(isFullscreen) ==
    /\ ~page.closed
    /\ isFullscreen # page.fullscreen
    /\ isFullscreen => page.iframe
    /\ LET q     == [page EXCEPT !.fullscreen = isFullscreen]
           purge == q.fullscreenListeners # {} /\ isFullscreen
       IN  /\ page' = IF purge THEN closeAllPopups(q) ELSE q
           /\ fullscreenPurge' = IF purge THEN "purged" ELSE "skipped"
    /\ UNCHANGED <<selected, isPlayerOpen, currentServer, nextSession,
                   classifierVars, domVars, blockerVars, filterVars, listingVars,
                   openResult, openGuarded>>

\* The embed inserts an element whose text holds one of the observer's five
\* phrases.  The callback of every connected player observer hides it and
\* schedules setTimeout(remove, 10).
OverlayInserted ==
    /\ ~page.closed
    /\ page.iframe
    /\ Cardinality(page.attached) < MaxOverlays
    /\ LET free == {e \in 1..MaxOverlays :
                        /\ e \notin page.attached
                        /\ \A t \in page.timeouts : t[3] # e}
       IN  /\ free # {}
           /\ LET e == CHOOSE x \in free : \A y \in free : x <= y
              IN  page' = [page EXCEPT
                              !.attached = @ \cup {e},
                              !.timeouts = @ \cup {<<"remove", s, e>> : s \in page.observers}]
    /\ UNCHANGED <<selected, isPlayerOpen, currentServer, nextSession,
                   classifierVars, domVars, blockerVars, filterVars, listingVars, callVars>>

\* A pending setTimeout callback runs: closeAllPopups() 100 ms after the
\* first click, or element.remove() 10 ms after the observer saw the element
\* ("if (element.parentElement)").
TimeoutFires(t) ==
    /\ ~page.closed
    /\ t \in page.timeouts
    /\ page' = IF t[1] = "purge"
               THEN [closeAllPopups(page) EXCEPT !.timeouts = @ \ {t}]
               ELSE [page EXCEPT !.timeouts = @ \ {t}, !.attached = @ \ {t[3]}]
    /\ UNCHANGED <<selected, isPlayerOpen, currentServer, nextSession,
                   classifierVars, domVars, blockerVars, filterVars, listingVars, callVars>>

\* What a call of window.open does when window.open is fn: the native
\* function creates a window and returns it ("window"), the override of
\* lines 262-273 creates nothing and returns null ("null").
WindowOpenReturns(fn) == IF fn = Native THEN "window" ELSE "null"

\* A call of window.open whose override keeps a handle in popupWindowsRef.
CallWindowOpenTracked ==
    /\ ~page.closed
    /\ openResult' = WindowOpenReturns(page.windowOpen)
    /\ openGuarded' = (selected # NoMovie /\ isPlayerOpen)
    /\ page' = IF page.windowOpen = Native THEN page
               ELSE [page EXCEPT !.popupWindows = Append(@, "window")]
    /\ UNCHANGED fullscreenPurge
    /\ UNCHANGED <<selected, isPlayerOpen, currentServer, nextSession,
                   classifierVars, domVars, blockerVars, filterVars, listingVars>>

\* Some script calls window.open(url).
CallWindowOpen ==
    /\ ~page.closed
    /\ openResult' = WindowOpenReturns(page.windowOpen)
    /\ openGuarded' = (selected # NoMovie /\ isPlayerOpen)
    /\ UNCHANGED fullscreenPurge
    /\ UNCHANGED <<classifierVars, domVars, blockerVars, filterVars, listingVars, playerVars>>

(***************************************************************************)
(* The DOM sanitation: one element of the page and the passes over it.     *)
(***************************************************************************)
\* main.tsx WHITELIST_SELECTORS.
WHITELIST_SELECTORS ==
    { Chars("details"), Chars("detailsContent"), Chars("detailsActions"),
      Chars("detailsTitle"), Chars("detailsMeta"), Chars("detailsOverview"),
      Chars("detailsPoster"), Chars("detailsText"), Chars("detailsContainer"),
      Chars("movieCard"), Chars("movieGrid"), Chars("moviePoster"),
      Chars("movieTitle"), Chars("section"), Chars("sectionHeader"),
      Chars("playerArea"), Chars("playerContainer"), Chars("playerHeader"),
      Chars("playerTitle"), Chars("providerList"), Chars("providerLogo"),
      Chars("watchButton"), Chars("closeButton") }

\* isAdElement's specificAdPatterns.
specificAdPatterns ==
    { Chars("adsbygoogle"), Chars("google_ads"), Chars("ad-container"),
      Chars("ad-wrapper"), Chars("ad-unit"), Chars("advertisement"),
      Chars("ad-banner"), Chars("sponsored-content"), Chars("promo-banner") }

\* The class attributes of the elements: two of the application's own, one
\* of an ad, each of the application's two with the ad's, none.  None
\* matches the selectors of the injected style sheet.
ClassNames ==
    { <<>>, Chars("watchButton"), Chars("details"), Chars("ad-banner"),
      Chars("watchButton ad-banner"), Chars("details ad-banner") }

\* The id attributes of the elements.
ElementIds == { <<>>, Chars("playerContainer") }

\* The text contents of the elements.
Texts ==
    { Chars("Ad Block Wonder - browse the web without interruptions"),
      Chars("Ad Block Wonder"),
      Chars("Install the browser extension to continue"),
      Chars("Sponsored"),
      Chars("Watch Now"),
      Chars("Release: 2024") }

Positions == {"static", "fixed", "absolute"}

\* parseInt of the computed z-index.  Of 'auto' it is NaN, which like 0
\* fails every comparison the passes make.
ZIndices == {0, 60, 10000}

\* The computed styles of an element that is in the document.
Styles ==
    [ position : Positions, zIndex : ZIndices,
      display : {"block", "none"}, visibility : {"visible", "hidden"} ]

\* An element: in the application's document or in the document of a
\* same-origin iframe; attached when it has a parent element.
Elements ==
    { e \in [ className : ClassNames, id : ElementIds, text : Texts,
              where : {"document", "iframe"}, attached : BOOLEAN, style : Styles ] :
        e.id # <<>> => e.className = <<>> }

\* The document holds nothing for the passes to meet.
NoElement ==
    [ className |-> <<>>, id |-> <<>>, text |-> <<>>, where |-> "document",
      attached |-> FALSE,
      style |-> [position |-> "static", zIndex |-> 0, display |-> "block",
                 visibility |-> "visible"] ]

\* window.getComputedStyle(e): every property of an element outside the
\* document is the empty string, and parseInt('' || '0') is 0.
ComputedStyle(e) ==
    IF e.attached THEN e.style
    ELSE [position |-> "", zIndex |-> 0, display |-> "", visibility |-> ""]

\* e.remove(): nothing when e has no parent.
Remove(e) == [e EXCEPT !.attached = FALSE]

\* isAdElement.
isAdElement(e) ==
    LET className == ToLowerCase(e.className)
        id == ToLowerCase(e.id)
        isWhitelisted ==
            \E whitelist \in WHITELIST_SELECTORS :
                Includes(className, whitelist) \/ Includes(id, whitelist)
        hasAdPattern ==
            \E pattern \in specificAdPatterns :
                Includes(className, pattern) \/ Includes(id, pattern)
    IN  IF isWhitelisted THEN FALSE ELSE hasAdPattern

\* isWhitelistedElement.
isWhitelistedElement(e) ==
    LET className == ToLowerCase(e.className)
        id == ToLowerCase(e.id)
    IN  \E whitelist \in WHITELIST_SELECTORS :
            Includes(className, whitelist) \/ Includes(id, whitelist)

\* The phrases of removePopups' isAdBlockWonder.
AdBlockWonderPhrases ==
    { Chars("ad block wonder"), Chars("adblock wonder"),
      Chars("blocks ads, crushes pop-ups"),
      Chars("browse the web without interruptions"),
      Chars("we silence the noise"), Chars("take out the trash") }

\* The words the passes look for one by one.
Word ==
    [ blocksAds |-> Chars("blocks ads"), popUps |-> Chars("pop-ups"),
      chromeWebStore |-> Chars("chrome web store"), chrome |-> Chars("chrome"),
      extension |-> Chars("extension"), continue |-> Chars("continue"),
      install |-> Chars("install"), browser |-> Chars("browser"),
      advertisement |-> Chars("advertisement"), sponsored |-> Chars("sponsored"),
      adBlockWonder |-> Chars("ad block wonder"),
      crushes |-> Chars("blocks ads, crushes pop-ups") ]

\* removePopups with a main pass that removes nothing.
RemovePopupsVisitNothing(e) == e

\* removePopups' callback on an element of the application's document.
RemovePopupsVisit(e) ==
    IF ~e.attached THEN e
    ELSE
    LET text       == ToLowerCase(e.text)
        position   == ComputedStyle(e).position
        zIndex     == ComputedStyle(e).zIndex
        display    == ComputedStyle(e).display
        visibility == ComputedStyle(e).visibility
        isAdBlockWonder ==
            \/ \E phrase \in AdBlockWonderPhrases : Includes(text, phrase)
            \/ Includes(text, Word.blocksAds) /\ Includes(text, Word.popUps)
            \/ Includes(text, Word.chromeWebStore) /\ Includes(text, Word.extension)
        isOverlay ==
            /\ position = "fixed" \/ position = "absolute"
            /\ zIndex > 100 \/ Len(text) > 20
    IN  IF display = "none" \/ visibility = "hidden" THEN e
        ELSE IF isAdBlockWonder /\ isOverlay THEN Remove(e)
        ELSE IF \/ Includes(text, Word.continue) /\ Includes(text, Word.extension)
                \/ /\ Includes(text, Word.install)
                   /\ Includes(text, Word.browser) \/ Includes(text, Word.extension)
                \/ Includes(text, Word.advertisement) /\ position # "static"
                \/ Includes(text, Word.sponsored) /\ zIndex > 50
        THEN IF position = "fixed" \/ position = "absolute" THEN Remove(e) ELSE e
        ELSE e

\* removePopups' callback on an element of an iframe's document.
RemovePopupsIframeVisit(e) ==
    LET text == ToLowerCase(e.text)
    IN  IF \/ Includes(text, Word.adBlockWonder)
           \/ Includes(text, Word.crushes)
           \/ Includes(text, Word.extension) /\ Includes(text, Word.chrome)
        THEN Remove(e)
        ELSE e

\* The iframes of the documents: the player's embed, which is of another
\* origin, alone or with an injected iframe of the application's origin
\* before or after it.
FrameLists ==
    { <<"crossOrigin">>, <<"crossOrigin", "sameOrigin">>,
      <<"sameOrigin", "crossOrigin">> }

\* iframe.contentDocument || iframe.contentWindow?.document: the document
\* of a same-origin iframe; of a cross-origin one contentDocument is null
\* and the read of contentWindow.document throws a SecurityError.
ContentDocument(frame) ==
    IF frame = "sameOrigin" THEN "document" ELSE "SecurityError"

\* The iframe pass with the try around the whole loop: the first exception
\* ends the pass.
RECURSIVE IframePassOuterTry(_, _)
IframePassOuterTry(fs, e) ==
    IF fs = <<>> THEN [e |-> e, thrown |-> FALSE]
    ELSE IF ContentDocument(Head(fs)) = "SecurityError"
    THEN [e |-> e, thrown |-> FALSE]
    ELSE IframePassOuterTry(Tail(fs),
             IF e.where = "iframe" THEN RemovePopupsIframeVisit(e) ELSE e)

\* removePopups' iframes.forEach over the iframes fs: inside the try of one
\* iteration the iframe's document is read and its elements are visited;
\* the catch of that iteration swallows the exception, and the loop goes on
\* with the next iframe.  The result is the element and whether an
\* exception left the loop.
RECURSIVE IframePass(_, _)
IframePass(fs, e) ==
    IF fs = <<>> THEN [e |-> e, thrown |-> FALSE]
    ELSE IF ContentDocument(Head(fs)) = "SecurityError"
    THEN IframePass(Tail(fs), e)
    ELSE IframePass(Tail(fs),
             IF e.where = "iframe" THEN RemovePopupsIframeVisit(e) ELSE e)

\* removePopups: the pass over document.querySelectorAll('*'), then the pass
\* over the document of every iframe that can be reached.
removePopups(e) ==
    IframePass(frames, IF e.where = "document" THEN RemovePopupsVisit(e) ELSE e).e

\* main.tsx AD_SELECTORS: a class selector, an attribute-substring selector
\* on class or id (one or two of them), an attribute-presence selector.
AD_SELECTORS ==
    { [kind |-> "class", values |-> <<Chars("adsbygoogle")>>],
      [kind |-> "class", values |-> <<Chars("ad-container")>>],
      [kind |-> "class", values |-> <<Chars("ad-wrapper")>>],
      [kind |-> "class", values |-> <<Chars("ad-unit")>>],
      [kind |-> "class", values |-> <<Chars("advertisement")>>],
      [kind |-> "class", values |-> <<Chars("ad-banner")>>],
      [kind |-> "class", values |-> <<Chars("sponsored-content")>>],
      [kind |-> "class", values |-> <<Chars("promo-banner")>>],
      [kind |-> "idHas", values |-> <<Chars("google_ads")>>],
      [kind |-> "idHas", values |-> <<Chars("advertisement")>>],
      [kind |-> "idHas", values |-> <<Chars("ad-banner")>>],
      [kind |-> "class", values |-> <<Chars("ad-slot")>>],
      [kind |-> "has", values |-> <<Chars("data-ad")>>],
      [kind |-> "classHas", values |-> <<Chars("ad-")>>],
      [kind |-> "classHas", values |-> <<Chars("install")>>],
      [kind |-> "classHas", values |-> <<Chars("download")>>],
      [kind |-> "idHas", values |-> <<Chars("install")>>],
      [kind |-> "classHas", values |-> <<Chars("opera")>>],
      [kind |-> "classHas", values |-> <<Chars("chrome")>>],
      [kind |-> "classHas", values |-> <<Chars("browser")>>],
      [kind |-> "classHas", values |-> <<Chars("warning")>>],
      [kind |-> "classHas", values |-> <<Chars("alert")>>],
      [kind |-> "idHas", values |-> <<Chars("overlay")>>],
      [kind |-> "classHas", values |-> <<Chars("modal"), Chars("ad")>>],
      [kind |-> "classHas", values |-> <<Chars("popup"), Chars("ad")>>] }

\* The class names of a class attribute: its parts between spaces.
RECURSIVE ClassList(_)
ClassList(className) ==
    IF className = <<>> THEN {}
    ELSE LET spaces == {i \in 1..Len(className) : className[i] = " "}
         IN  IF spaces = {} THEN {className}
             ELSE LET i == CHOOSE x \in spaces : \A y \in spaces : x <= y
                  IN  (IF i = 1 THEN {} ELSE {SubSeq(className, 1, i - 1)})
                          \cup ClassList(SubSeq(className, i + 1, Len(className)))

\* element.matches(selector), the element's only attributes being class
\* and id.
MatchesSelector(e, selector) ==
    CASE selector.kind = "class" ->
            selector.values[1] \in ClassList(e.className)
      [] selector.kind = "classHas" ->
            \A i \in 1..Len(selector.values) : Includes(e.className, selector.values[i])
      [] selector.kind = "idHas" ->
            \A i \in 1..Len(selector.values) : Includes(e.id, selector.values[i])
      [] OTHER -> FALSE

\* main.tsx blockIframeAds(iframe) for an iframe of kind frame: inside the
\* try the iframe's document is read, and every element of it that one of
\* AD_SELECTORS matches and isAdElement accepts is removed; the catch
\* swallows the exception of a cross-origin iframe.
blockIframeAds(frame, e) ==
    IF ContentDocument(frame) = "SecurityError"
    THEN [e |-> e, thrown |-> FALSE]
    ELSE [e |-> IF /\ e.where = "iframe"
                   /\ e.attached
                   /\ \E selector \in AD_SELECTORS : MatchesSelector(e, selector)
                   /\ isAdElement(e)
                THEN Remove(e) ELSE e,
          thrown |-> FALSE]

\* The keywords of the interval callback of startAggressiveOverlayRemoval.
AggressiveKeywords ==
    { Chars("ad block wonder"), Chars("adblock wonder"),
      Chars("blocks ads, crushes pop-ups"), Chars("we silence the noise"),
      Chars("take out the trash"), Chars("install"), Chars("opera"),
      Chars("download"), Chars("continue"), Chars("browser"),
      Chars("extension"), Chars("chrome web store"), Chars("ad block"),
      Chars("adblock"), Chars("privacy policy"), Chars("advertisement"),
      Chars("sponsored"), Chars("click here"), Chars("watch now"),
      Chars("skip ad") }

\* The interval callback of startAggressiveOverlayRemoval on an element of
\* the application's document.
AggressiveVisit(e) ==
    LET zIndex   == ComputedStyle(e).zIndex
        position == ComputedStyle(e).position
        display  == ComputedStyle(e).display
        text     == ToLowerCase(e.text)
    IN  IF /\ zIndex > 100
           /\ position = "fixed" \/ position = "absolute"
           /\ display # "none"
           /\ \/ \E keyword \in AggressiveKeywords : Includes(text, keyword)
              \/ Includes(text, Word.blocksAds) /\ Includes(text, Word.popUps)
        THEN Remove(e)
        ELSE e

\* The phrases of the player's MutationObserver.
ObserverPhrases ==
    { Chars("ad block wonder"), Chars("adblock wonder"),
      Chars("blocks ads, crushes pop-ups"), Chars("we silence the noise"),
      Chars("take out the trash") }

\* The player's MutationObserver sees e among the added nodes.
ObserverMatches(e) ==
    \E phrase \in ObserverPhrases : Includes(ToLowerCase(e.text), phrase)

\* The inline styles the player's MutationObserver sets on a match.
ObserverHide(e) ==
    [e EXCEPT !.style.display = "none", !.style.visibility = "hidden"]

\* The callback of observeAdElements' MutationObserver on an added element
\* without children.
AdObserverVisit(e) ==
    IF \/ e.id = Chars("root")
       \/ ClassList(e.className) \cap {Chars("app"), Chars("main"), Chars("main-inner")} # {}
    THEN e
    ELSE IF isAdElement(e) THEN Remove(e) ELSE e

\* The callback of observeAdElements' MutationObserver on an added element
\* without class and id, for its descendant e: removed when one of
\* AD_SELECTORS finds it, isAdElement accepts it and isWhitelistedElement
\* does not.
AdObserverChildVisit(e) ==
    IF /\ \E selector \in AD_SELECTORS : MatchesSelector(e, selector)
       /\ isAdElement(e)
       /\ ~isWhitelistedElement(e)
    THEN Remove(e) ELSE e

\* The element after pass `by`, and the pass that detached it.
Swept(e, by) ==
    /\ el' = e
    /\ removedBy' = IF el.attached /\ ~e.attached THEN by ELSE removedBy
    /\ lastPass' = by

\* The callback of the open player's removePopups interval runs.
RemovePopupsTick ==
    /\ page.immediateIntervals # {}
    /\ Swept(removePopups(el), "removePopups")
    /\ thrown' = IframePass(frames, el).thrown
    /\ UNCHANGED <<frames, pendingRemove, classifierVars, blockerVars, filterVars, listingVars, playerVars, callVars>>

\* The callback of the open player's startAggressiveOverlayRemoval interval
\* runs.
AggressiveTick ==
    /\ page.overlayIntervals # {}
    /\ Swept(IF el.where = "document" THEN AggressiveVisit(el) ELSE el,
             "startAggressiveOverlayRemoval")
    /\ UNCHANGED <<frames, thrown, pendingRemove, classifierVars, blockerVars, filterVars, listingVars, playerVars, callVars>>

\* A script appends the element to the body of the application's document.
\* The observers get the record in the order of their creation:
\* observeAdElements' first, the player's second, which hides a match and
\* calls setTimeout(remove, 10).
NodeInserted ==
    /\ el.where = "document"
    /\ ~el.attached
    /\ lastPass = "none"
    /\ LET added   == [el EXCEPT !.attached = TRUE]
           e1      == IF adObservers > 0 THEN AdObserverVisit(added) ELSE added
           matches == page.observers # {} /\ ObserverMatches(e1)
       IN  /\ el' = IF matches THEN ObserverHide(e1) ELSE e1
           /\ removedBy' = IF e1.attached THEN removedBy ELSE "observeAdElements"
           /\ pendingRemove' = matches
    /\ lastPass' = "MutationObserver"
    /\ UNCHANGED <<frames, thrown, classifierVars, blockerVars, filterVars, listingVars, playerVars, callVars>>

\* A script appends to the body a wrapper without class and id that holds
\* the element.  observeAdElements' observer looks through the wrapper's
\* descendants; the player's observer reads the wrapper's text, which is the
\* element's, hides the wrapper on a match and calls setTimeout(remove, 10).
NodeInsertedInside ==
    /\ el.where = "document"
    /\ ~el.attached
    /\ lastPass = "none"
    /\ LET added == [el EXCEPT !.attached = TRUE]
           e1    == IF adObservers > 0 THEN AdObserverChildVisit(added) ELSE added
       IN  /\ el' = e1
           /\ removedBy' = IF e1.attached THEN removedBy ELSE "observeAdElements"
           /\ pendingRemove' = (page.observers # {} /\ ObserverMatches(e1))
    /\ lastPass' = "MutationObserver"
    /\ UNCHANGED <<frames, thrown, classifierVars, blockerVars, filterVars, listingVars,
                   playerVars, callVars>>

\* The timeout of the player's MutationObserver fires:
\* "if (element.parentElement) element.remove()".
RemoveTimeoutFires ==
    /\ pendingRemove
    /\ pendingRemove' = FALSE
    /\ Swept(IF el.attached THEN Remove(el) ELSE el, "MutationObserver")
    /\ UNCHANGED <<frames, thrown, classifierVars, blockerVars, filterVars, listingVars,
                   playerVars, callVars>>

\* handleIframeLoad: the player's iframe, the i-th of the document, fired
\* load, and blockIframeAds(iframeRef.current) runs.
handleIframeLoad(i) ==
    /\ page.iframe
    /\ i \in 1..Len(frames)
    /\ LET r == blockIframeAds(frames[i], el)
       IN  /\ Swept(r.e, "blockIframeAds")
           /\ thrown' = r.thrown
    /\ UNCHANGED <<frames, pendingRemove, classifierVars, blockerVars, filterVars, listingVars,
                   playerVars, callVars>>

(***************************************************************************)
(* The specification of the application.                                   *)
(***************************************************************************)
InitClassifier ==
    /\ url = <<>>
    /\ classified = FALSE
    /\ isAd = FALSE

InitApp ==
    /\ loaded = FALSE
    /\ adBlockerEnabled = TRUE
    /\ fetchFn = Native
    /\ xhrOpenFn = Native
    /\ createElementFn = Native
    /\ adObservers = 0
    /\ fetchCall = NoCall
    /\ xhrCall = NoCall
    /\ element = NotCreated
    /\ assignment = NoCall
    /\ activeTab = "home"
    /\ searchQuery = ""
    /\ selectedGenre = NoGenre
    /\ selected = NoMovie
    /\ isPlayerOpen = FALSE
    /\ currentServer = DefaultServer
    /\ page = InitPage
    /\ nextSession = 1
    /\ openResult = "none"
    /\ openGuarded = FALSE
    /\ fullscreenPurge = "none"
    /\ el = NoElement
    /\ removedBy = ""
    /\ pendingRemove = FALSE
    /\ lastPass = "none"
    /\ frames = <<>>
    /\ thrown = FALSE
    /\ movies = NoMovies
    /\ loading = FALSE
    /\ issued = 0
    /\ listingRequests = {}
    /\ watchProviders = NoProviders
    /\ providerRequests = {}
    /\ providersIssued = 0
    /\ unhandled = FALSE

\* The metadata server is left out: no request of the run is answered.
Init == InitClassifier /\ InitApp /\ answering = FALSE

Next ==
    \/ Load
    \/ \E tab \in Tabs : TabChange(tab)
    \/ \E query \in Queries : SearchChange(query)
    \/ \E genre \in Genres : GenreChange(genre)
    \/ \E movieId \in MovieIds : MovieClick(movieId)
    \/ WatchNow
    \/ DetailsClose
    \/ handleClose
    \/ \E server \in Servers : handleServerChange(server)
    \/ \E s \in 1..MaxSessions : handleWrapperClick(s)
    \/ OverlayInserted
    \/ \E t \in page.timeouts : TimeoutFires(t)
    \/ CallWindowOpen

Spec == Init /\ [][Next]_vars

(***************************************************************************)
(* The specification of the popup purge: the player is opened, switched    *)
(* and closed while the wrapper is clicked and the document enters and     *)
(* leaves fullscreen.  The listing filters stay as they are.               *)
(***************************************************************************)
\* Another page's script created this window with window.open, before the
\* application loaded in it: window.opener is set.
OpenedByScript ==
    /\ ~loaded
    /\ ~page.opener
    /\ page' = [page EXCEPT !.opener = TRUE]
    /\ UNCHANGED <<selected, isPlayerOpen, currentServer, nextSession,
                   classifierVars, domVars, blockerVars, filterVars, listingVars, callVars>>

NextPurge ==
    \/ OpenedByScript
    \/ Load
    \/ \E movieId \in MovieIds : MovieClick(movieId)
    \/ WatchNow
    \/ DetailsClose
    \/ handleClose
    \/ \E server \in Servers : handleServerChange(server)
    \/ \E s \in 1..MaxSessions : handleWrapperClick(s)
    \/ \E isFullscreen \in BOOLEAN : handleFullscreenChange(isFullscreen)
    \/ \E t \in page.timeouts : TimeoutFires(t)
    \/ CallWindowOpen

SpecPurge == Init /\ [][NextPurge]_vars

(***************************************************************************)
(* The specification of the listing: the filters change and movies are     *)
(* selected while the metadata responses arrive in any order.              *)
(***************************************************************************)
InitListing == InitClassifier /\ InitApp /\ answering = TRUE

NextListing ==
    \/ Load
    \/ \E tab \in Tabs : TabChange(tab)
    \/ \E query \in Queries : SearchChange(query)
    \/ \E genre \in Genres : GenreChange(genre)
    \/ \E movieId \in MovieIds : MovieClick(movieId)
    \/ DetailsClose
    \/ \E r \in listingRequests, outcome \in ListingOutcomes : ListingResponse(r, outcome)
    \/ \E movieId \in MovieIds, outcome \in ProviderOutcomes :
          ProvidersResponse(movieId, outcome)

SpecListing == InitListing /\ [][NextListing]_vars

(***************************************************************************)
(* The specification of the classifier alone: isAdDomain applied to every  *)
(* URL of Urls.                                                            *)
(***************************************************************************)
InitDomain ==
    /\ url \in Urls
    /\ classified = FALSE
    /\ isAd = FALSE
    /\ InitApp
    /\ answering = FALSE

\* One call isAdDomain(url).
Classify ==
    /\ ~classified
    /\ classified' = TRUE
    /\ isAd' = isAdDomain(url)
    /\ UNCHANGED <<url, blockerVars, filterVars, listingVars, playerVars, callVars, domVars>>

NextDomain == Classify

SpecDomain == InitDomain /\ [][NextDomain]_vars

(***************************************************************************)
(* The specification of the ad blocker module, main.tsx, as its exported   *)
(* functions and the wrappers it installs are called.                      *)
(***************************************************************************)
NextNet ==
    \/ Load
    \/ EnableAdBlocker
    \/ DisableAdBlocker
    \/ \E input \in FetchInputs, init \in FetchInits : CallFetch(input, init)
    \/ \E u \in XhrUrls, async \in XhrAsyncs, username \in XhrUsernames,
          password \in XhrPasswords :
            CallXhrOpen("GET", u, async, username, password)
    \/ CallReturns

SpecNet == Init /\ [][NextNet]_vars

(***************************************************************************)
(* The specification of the sanitation passes: the player is open on movie *)
(* 7, and a document holds one element of Elements.                        *)
(***************************************************************************)
InitSweep ==
    /\ InitClassifier
    /\ loaded = TRUE
    /\ adBlockerEnabled = TRUE
    /\ fetchFn = blockAdRequests(Native)
    /\ xhrOpenFn = blockAdRequests(Native)
    /\ createElementFn = blockAdScripts(Native)
    /\ adObservers = 1
    /\ fetchCall = NoCall
    /\ xhrCall = NoCall
    /\ element = NotCreated
    /\ assignment = NoCall
    /\ activeTab = "home"
    /\ searchQuery = ""
    /\ selectedGenre = NoGenre
    /\ selected = 7
    /\ isPlayerOpen = TRUE
    /\ currentServer = DefaultServer
    /\ page = [Commit(Commit(InitPage, FALSE, FALSE, <<DefaultServer, NoMovie>>,
                             TRUE, FALSE, <<DefaultServer, 7>>, 1),
                      TRUE, FALSE, <<DefaultServer, 7>>,
                      TRUE, TRUE, <<DefaultServer, 7>>, 1)
                  EXCEPT !.openedFor = 7]
    /\ nextSession = 2
    /\ openResult = "none"
    /\ openGuarded = FALSE
    /\ fullscreenPurge = "none"
    /\ el \in Elements
    /\ removedBy = ""
    /\ pendingRemove = FALSE
    /\ lastPass = "none"
    /\ movies = Results(ListingUrl("home", "", NoGenre))
    /\ loading = FALSE
    /\ issued = 1
    /\ listingRequests = {}
    /\ watchProviders = ProvidersOf(7)
    /\ providerRequests = {}
    /\ providersIssued = 1
    /\ unhandled = FALSE
    /\ answering = FALSE
    /\ frames \in FrameLists
    /\ (el.where = "iframe") = (\E i \in 1..Len(frames) : frames[i] = "sameOrigin")
    /\ thrown = FALSE

NextSweep ==
    \/ RemovePopupsTick
    \/ AggressiveTick
    \/ NodeInserted
    \/ NodeInsertedInside
    \/ RemoveTimeoutFires
    \/ \E i \in 1..Len(frames) : handleIframeLoad(i)

SpecSweep == InitSweep /\ [][NextSweep]_vars

(***************************************************************************)
(* The specification of the elements created through                       *)
(* document.createElement as main.tsx wraps it.                            *)
(***************************************************************************)
NextScript ==
    \/ Load
    \/ EnableAdBlocker
    \/ \E tagName \in TagNames : CallCreateElement(tagName)
    \/ \E name \in AttributeNames, value \in CallUrls : CallSetAttribute(name, value)
    \/ \E value \in CallUrls : AssignSrc(value)

SpecScript == Init /\ [][NextScript]_vars

(***************************************************************************)
(* The claims.                                                             *)
(***************************************************************************)
\* pat occurs in s when letter case is ignored, position by position.
ContainsCI(s, pat) ==
    \E i \in 0..(Len(s) - Len(pat)) :
        \A j \in 1..Len(pat) : ToLowerChar(s[i + j]) = ToLowerChar(pat[j])

MatchesAllowList(u) == \E w \in WHITELIST_DOMAINS : ContainsCI(u, w)

MatchesBlockList(u) == \E a \in AD_DOMAINS : ContainsCI(u, a)

\* A VideoPlayer is mounted with isOpen true.
PlayerOpen == selected # NoMovie /\ isPlayerOpen

\* C1: a URL that contains an allow-list pattern, in any letter case, is
\* classified not-an-ad, also when it contains block-list patterns.
C1_AllowListPrecedence ==
    (classified /\ MatchesAllowList(url)) => ~isAd

\* A URL matching both lists has been classified.
C1_Witness ==
    classified /\ MatchesAllowList(url) /\ MatchesBlockList(url) /\ ~isAd

\* C2: isAdDomain returns true exactly for a URL that contains a block-list
\* pattern and no allow-list pattern; so it returns false for a URL matching
\* neither list and for the empty string.
C2_FailOpen ==
    classified =>
        /\ isAd <=> (MatchesBlockList(url) /\ ~MatchesAllowList(url))
        /\ (~MatchesBlockList(url) /\ ~MatchesAllowList(url)) => ~isAd
        /\ url = <<>> => ~isAd

\* A block-listed URL written in upper case has been classified an ad.
C2_Witness ==
    classified /\ isAd /\ url # ToLowerCase(url)

\* C3: while the player is open every call of window.open returns null and
\* creates no window; the function in place when the guard is installed is
\* the one in place after it is torn down, and then no wrapper click
\* listener is left.
C3_PopupVeto ==
    /\ [](PlayerOpen => WindowOpenReturns(page.windowOpen) = "null")
    /\ [](openGuarded => openResult = "null")
    /\ [](~PlayerOpen => (page.windowOpen = Native /\ page.clickListeners = {}))
    /\ [][(~PlayerOpen /\ PlayerOpen') => page.windowOpen = Native]_vars

\* window.open was called and vetoed during a session that has since ended.
C3_Witness ==
    /\ ~PlayerOpen
    /\ openGuarded
    /\ openResult = "null"
    /\ page.windowOpen = Native
    /\ page.clickListeners = {}

C5_SingleLayer ==
    /\ fetchFn <= 1
    /\ xhrOpenFn <= 1
    /\ createElementFn <= 1

\* The guard objects of page p all belong to session s.
OnlySession(p, s) ==
    /\ p.observers \subseteq {s}
    /\ p.overlayIntervals \subseteq {s}
    /\ p.immediateIntervals \subseteq {s}
    /\ p.clickListeners \subseteq {s}
    /\ p.fullscreenListeners \subseteq {s}
    /\ p.windowOpen \in {Native, s}

\* C6: at most one guard session is active: one window.open override around
\* the native function, one player observer, one interval of each kind and
\* one set of listeners, all of the same session; and while the player is
\* open there is exactly one, whose iframe targets the selected movie.
C6_SessionExclusive ==
    /\ OnlySession(page, page.effect)
    /\ page.windowOpen # Native => page.originalWindowOpen = Native
    /\ PlayerOpen =>
          /\ page.effect # 0
          /\ page.windowOpen = page.effect
          /\ page.observers = {page.effect}
          /\ page.overlayIntervals = {page.effect}
          /\ page.immediateIntervals = {page.effect}
          /\ page.clickListeners = {page.effect}
          /\ page.fullscreenListeners = {page.effect}
          /\ page.iframe
          /\ Len(page.iframeSrc) = 3
          /\ page.iframeSrc[3] = selected
    /\ ~PlayerOpen => page.effect = 0

\* The player was opened for movie 5 and movie 7 was selected without a close.
C6_Witness ==
    /\ PlayerOpen
    /\ page.openedFor = 5
    /\ selected = 7
    /\ page.iframeSrc[3] = 7
    /\ page.observers = {page.effect}

\* C7 as stated: every pending timeout, running interval and connected
\* observer belongs to the session of a player that is open; when the
\* player is closed none is left.
C7_NoOrphanTimers ==
    /\ \A t \in page.timeouts : PlayerOpen /\ t[2] = page.effect
    /\ ~PlayerOpen =>
          /\ page.overlayIntervals = {}
          /\ page.immediateIntervals = {}
          /\ page.observers = {}

\* Everything a session acquired is released in page p.
Released(p) ==
    /\ p.windowOpen = Native
    /\ p.overflow = ""
    /\ p.overlayIntervals = {}
    /\ p.immediateIntervals = {}
    /\ p.observers = {}
    /\ p.fullscreenListeners = {}
    /\ p.clickListeners = {}

\* C8: a step that unmounts the open player (the selection is cleared)
\* leaves window.open native, the scroll unlocked, both intervals cleared,
\* the observer disconnected and the listeners removed, as a step of the
\* close button does.
C8_ReleaseOnUnmount ==
    [][((PlayerOpen /\ selected' = NoMovie) => Released(page'))
       /\ ((PlayerOpen /\ ~isPlayerOpen') => Released(page'))]_vars

\* The open player was unmounted: isPlayerOpen is still true, as only the
\* close button resets it.
C8_Witness ==
    /\ selected = NoMovie
    /\ isPlayerOpen
    /\ nextSession > 1
    /\ Released(page)

\* C9: the body's overflow is 'hidden' exactly when a VideoPlayer is mounted
\* with isOpen true.
C9_ScrollLock ==
    (page.overflow = "hidden") <=> PlayerOpen

\* The scroll is locked for the second time, after a release.
C9_Witness ==
    /\ PlayerOpen
    /\ page.effect = 2
    /\ page.overflow = "hidden"

\* The iframe target the claim gives for a provider and a movie.
ExpectedTarget(server, movieId) ==
    CASE server = "vidnest"  -> <<"https://vidnest.fun", "/movie/", movieId>>
      [] server = "cinemaos" -> <<"https://cinemaos.tech", "/player/", movieId>>
      [] server = "videasy"  -> <<"https://player.videasy.net", "/movie/", movieId>>
      [] server = "vidora"   -> <<"https://vidora.su", "/movie/", movieId>>

\* C10: while the player is open its iframe's src is the provider's base
\* followed by /player/<id> for cinemaos and by /movie/<id> for the others,
\* for the current provider and the selected movie.
C10_IframeTarget ==
    PlayerOpen =>
        /\ page.iframe
        /\ page.iframeSrc = ExpectedTarget(currentServer, selected)

\* Movie 42 plays on cinemaos after a provider switch of a session that
\* began on another movie.
C10_Witness ==
    /\ PlayerOpen
    /\ selected = 42
    /\ page.openedFor # 42
    /\ currentServer = "cinemaos"
    /\ page.iframeSrc = <<"https://cinemaos.tech", "/player/", 42>>

\* The guard session of page p is the guard session of page q: the same
\* window.open override, observer, sweep intervals, listeners, click counter
\* and scroll lock.
SameGuards(p, q) ==
    /\ p.effect = q.effect
    /\ p.windowOpen = q.windowOpen
    /\ p.originalWindowOpen = q.originalWindowOpen
    /\ p.observers = q.observers
    /\ p.overlayIntervals = q.overlayIntervals
    /\ p.overlayIntervalRef = q.overlayIntervalRef
    /\ p.immediateIntervals = q.immediateIntervals
    /\ p.clickListeners = q.clickListeners
    /\ p.fullscreenListeners = q.fullscreenListeners
    /\ p.clickCount = q.clickCount
    /\ p.overflow = q.overflow
    /\ p.styleInjected = q.styleInjected

\* C11: a step that changes the provider of the open player sets the
\* iframe's src to the target of the new provider and the same movie, leaves
\* the list of tracked popups empty, and changes nothing of the guard
\* session.
C11_ServerSwitch ==
    [][(PlayerOpen /\ PlayerOpen' /\ currentServer' # currentServer) =>
          /\ selected' = selected
          /\ page'.iframeSrc = ExpectedTarget(currentServer', selected)
          /\ page'.popupWindows = <<>>
          /\ SameGuards(page, page')]_vars

\* The provider was switched after the first click of the session: the
\* click counter of the session was kept.
C11_Witness ==
    /\ PlayerOpen
    /\ currentServer = "videasy"
    /\ page.iframeSrc = <<"https://player.videasy.net", "/movie/", selected>>
    /\ page.clickCount = 1
    /\ page.windowOpen = page.effect
    /\ <<"purge", page.effect, 0>> \in page.timeouts

\* The class or the id of e contains an entry of WHITELIST_SELECTORS.
AllowListed(e) ==
    \E w \in WHITELIST_SELECTORS : Includes(e.className, w) \/ Includes(e.id, w)

\* The element is displayed and visible.
Visible(e) == e.style.display # "none" /\ e.style.visibility # "hidden"

\* C12 as stated: an element whose class or id contains an allow-listed
\* fragment is never detached by removePopups, by the interval of
\* startAggressiveOverlayRemoval or by the player's MutationObserver.
C12_AllowListedKept ==
    AllowListed(el) =>
        removedBy \notin {"removePopups", "startAggressiveOverlayRemoval", "MutationObserver"}

\* The element of C13: in the application's document, attached, visible,
\* fixed with z-index 10000, not allow-listed, with the text of the claim
\* (its dash written as a hyphen).
C13_Element(e) ==
    /\ e.where = "document"
    /\ e.text = Chars("Ad Block Wonder - browse the web without interruptions")
    /\ e.style.position = "fixed"
    /\ e.style.zIndex = 10000
    /\ Visible(e)
    /\ ~AllowListed(e)

\* C13: one run of removePopups detaches the element of C13.
C13_SweepRemoves ==
    [][(C13_Element(el) /\ el.attached /\ lastPass' = "removePopups") => ~el'.attached]_vars

\* The element of C13 was detached by removePopups, the first pass it met.
C13_Witness ==
    /\ C13_Element(el)
    /\ ~el.attached
    /\ removedBy = "removePopups"
    /\ lastPass = "removePopups"

\* The classifier's verdict on u as the claims word it: u holds a
\* block-list pattern and no allow-list pattern, letter case ignored.
Blocked(u) == MatchesBlockList(u) /\ ~MatchesAllowList(u)

\* The URL of a fetch input: the string itself, the href of a URL, the url
\* of a Request.
EffectiveUrl(input) ==
    CASE input.kind = "string"  -> input.value
      [] input.kind = "URL"     -> input.href
      [] input.kind = "Request" -> input.url

\* C14: a call of the wrapped fetch with a blocked URL is rejected with the
\* error 'Ad blocked' and the native fetch is not invoked; with any other
\* URL the native fetch is invoked once, with the caller's input and init,
\* and the caller gets its promise.
C14_WrappedFetch ==
    (fetchCall # NoCall /\ fetchCall.fn # Native) =>
        IF Blocked(EffectiveUrl(fetchCall.input))
        THEN /\ fetchCall.result.settled = "rejected"
             /\ fetchCall.result.error = "Ad blocked"
             /\ fetchCall.result.native = <<>>
        ELSE /\ fetchCall.result.settled = "native"
             /\ fetchCall.result.native = << <<fetchCall.input, fetchCall.init>> >>

\* The wrapper rejected a Request whose url is an ad server's in upper case.
C14_Witness ==
    /\ fetchCall # NoCall
    /\ fetchCall.fn # Native
    /\ fetchCall.input.kind = "Request"
    /\ fetchCall.input.url # ToLowerCase(fetchCall.input.url)
    /\ Blocked(fetchCall.input.url)
    /\ fetchCall.init = "POST"
    /\ fetchCall.result.settled = "rejected"

\* The arguments the claim has the native open get.
C15_Expected(c) ==
    <<c.method, c.url,
      IF c.async = Undefined THEN "true" ELSE c.async,
      IF c.username = Undefined THEN "null" ELSE c.username,
      IF c.password = Undefined THEN "null" ELSE c.password>>

\* C15: a call of the wrapped open with a blocked URL returns without an
\* error and without invoking the native open; with any other URL the native
\* open is invoked once with the same method and URL, async true when it was
\* left out, username and password null when they were left out.
C15_WrappedOpen ==
    (xhrCall # NoCall /\ xhrCall.fn # Native) =>
        /\ ~xhrCall.result.threw
        /\ IF Blocked(IF xhrCall.url.kind = "string" THEN xhrCall.url.value
                      ELSE xhrCall.url.href)
           THEN xhrCall.result.native = <<>>
           ELSE xhrCall.result.native = <<C15_Expected(xhrCall)>>

\* The wrapper handed on an open(method, url) with the three defaults.
C15_Witness ==
    /\ xhrCall # NoCall
    /\ xhrCall.fn # Native
    /\ xhrCall.url.kind = "URL"
    /\ xhrCall.url.href # <<>>
    /\ xhrCall.async = Undefined
    /\ xhrCall.username = Undefined
    /\ xhrCall.password = Undefined
    /\ xhrCall.result.native = << <<"GET", xhrCall.url, "true", "null", "null">> >>

\* The last assignment was made to the src of an element of tag script (in
\* any letter case) that the wrapped createElement returned.
C16_ToScriptSrc ==
    /\ assignment # NoCall
    /\ assignment.name = Chars("src")
    /\ element.createdWith # Native
    /\ ContainsCI(element.tagName, Chars("script"))

C17_SessionPerMovie ==
    PlayerOpen =>
        /\ page.openedFor = selected
        /\ OnlySession(page, page.effect)

\* C17: a step that selects another movie while the player is open keeps
\* the guard session as it is, click counter included, and sets the iframe's
\* src to the target of the new movie; the guard objects are those of one
\* session.
C17_RetargetKeepsSession ==
    [][(PlayerOpen /\ PlayerOpen' /\ selected' # selected) =>
          /\ SameGuards(page, page')
          /\ page'.openedFor = page.openedFor
          /\ page'.iframeSrc = ExpectedTarget(currentServer, selected')
          /\ OnlySession(page', page.effect)]_vars

\* Another movie was selected after the first click of the session: the
\* session and its click counter are those of the movie the player was
\* opened for.
C17_Witness ==
    /\ PlayerOpen
    /\ page.openedFor = 5
    /\ selected = 42
    /\ page.effect = 1
    /\ page.clickCount = 1
    /\ page.timeouts = {}
    /\ page.iframeSrc[3] = 42

\* C18 as stated: an element whose position is neither fixed nor absolute
\* is detached by no pass, whatever its text.
C18_StaticKept ==
    el.style.position = "static" => removedBy = ""

\* The passes that run on an interval.
PeriodicSweeps == {"removePopups", "startAggressiveOverlayRemoval"}

\* The text of e holds a phrase that every pass looks for.
MatchesOverlayKeywords(e) == \E phrase \in ObserverPhrases : ContainsCI(e.text, phrase)

\* C19 as stated: after a periodic pass no visible element of the
\* application's document is left that is fixed or absolute and whose text
\* matches the overlay keywords, whatever its z-index and the length of its
\* text.
C19_RemovalRule ==
    ( /\ lastPass \in PeriodicSweeps
      /\ el.where = "document"
      /\ Visible(el)
      /\ el.style.position \in {"fixed", "absolute"}
      /\ MatchesOverlayKeywords(el) ) => ~el.attached

\* C20 as stated: an element that a periodic pass detached was displayed
\* and visible.
C20_HiddenSkipped ==
    removedBy \in PeriodicSweeps => Visible(el)

\* C21: the click counter changes only by a wrapper click, which adds one
\* within the session and schedules the delayed purge exactly when it is the
\* first click of the session, or by the end of the session, which sets it
\* to zero; a session begins with the counter at zero, and without a
\* session the counter is zero.
C21_FirstClickPurge ==
    /\ [](page.effect = 0 => page.clickCount = 0)
    /\ [][(page'.effect # page.effect) => page'.clickCount = 0]_vars
    /\ [][(page'.effect = page.effect /\ page'.clickCount # page.clickCount) =>
             /\ page'.clickCount = page.clickCount + 1
             /\ page'.timeouts =
                    IF page.clickCount = 0
                    THEN page.timeouts \cup {<<"purge", page.effect, 0>>}
                    ELSE page.timeouts]_vars

\* The second click of the second session, after the purge of its first
\* click ran: no purge is pending.
C21_Witness ==
    /\ PlayerOpen
    /\ page.effect = 2
    /\ page.clickCount = 2
    /\ \A t \in page.timeouts : t[1] # "purge"

\* C22 as stated: every fullscreen-change event purges when the player is
\* open, and none does when it is closed.
C22_EveryChangePurges ==
    [][(page'.fullscreen # page.fullscreen) =>
         fullscreenPurge' = IF PlayerOpen THEN "purged" ELSE "skipped"]_vars

\* C22 amended: a fullscreen-change event runs closeAllPopups exactly when
\* the player is open and the document is fullscreen after the change; an
\* event by which the document leaves fullscreen, and any event while the
\* player is closed, purges nothing.  A purge closes the application's own
\* window when it has an opener and closes nothing else.
C22_FullscreenPurge ==
    [][(page'.fullscreen # page.fullscreen) =>
         /\ fullscreenPurge' = IF PlayerOpen /\ page'.fullscreen
                               THEN "purged" ELSE "skipped"
         /\ page'.closed = (page.opener /\ fullscreenPurge' = "purged")
         /\ page'.popupWindows = page.popupWindows]_vars

\* In the first session the document entered fullscreen and left it again
\* with the player open: the second event purged nothing.
C22_Witness ==
    /\ PlayerOpen
    /\ page.effect = 1
    /\ ~page.fullscreen
    /\ fullscreenPurge = "skipped"

\* C23: no pass lets an exception escape; a removePopups pass visits the
\* element of a same-origin iframe wherever the cross-origin iframe stands
\* in the document; blockIframeAds on a cross-origin iframe changes nothing;
\* and after every pass the player's sweep intervals are still running.
C23_CrossOriginSilent ==
    /\ [](~thrown)
    /\ [][(lastPass' = "removePopups" /\ el.where = "iframe") =>
             el' = RemovePopupsIframeVisit(el)]_vars
    /\ [][(lastPass' = "blockIframeAds" /\ el.where = "document") =>
             el' = el]_vars
    /\ [][/\ page'.immediateIntervals = page.immediateIntervals
          /\ page'.overlayIntervals = page.overlayIntervals
          /\ page'.immediateIntervals # {}]_vars

\* A removePopups pass met the cross-origin iframe first and then removed
\* the element of the same-origin iframe behind it.
C23_Witness ==
    /\ frames = <<"crossOrigin", "sameOrigin">>
    /\ el.where = "iframe"
    /\ lastPass = "removePopups"
    /\ removedBy = "removePopups"
    /\ ~thrown

\* C24: no metadata response leaves a promise rejection unhandled, and the
\* step of a listing response ends with loading false and with the list
\* either empty or holding the results of the answered request.
C24_FetchFailureRecovered ==
    /\ [](~unhandled)
    /\ [][(listingRequests' # listingRequests /\ issued' = issued) =>
             /\ ~loading'
             /\ \/ movies' = NoMovies
                \/ \E r \in listingRequests \ listingRequests' : movies' = Results(r.url)]_vars

\* C25: an element whose class or id contains an entry of
\* WHITELIST_SELECTORS as written is not an ad for isAdElement, is
\* whitelisted for isWhitelistedElement, and is removed neither by
\* observeAdElements' observer nor by blockIframeAds.
C25_ClassWhitelist ==
    AllowListed(el) =>
        /\ ~isAdElement(el)
        /\ isWhitelistedElement(el)
        /\ removedBy \notin {"observeAdElements", "blockIframeAds"}

\* C26: a fetch or an open called while adBlockerEnabled is false reaches
\* the native function whatever its URL is.
C26_DisabledPassesThrough ==
    /\ [][(~adBlockerEnabled /\ fetchCall = NoCall /\ fetchCall' # NoCall) =>
             fetchCall'.result.native # <<>>]_vars
    /\ [][(~adBlockerEnabled /\ xhrCall = NoCall /\ xhrCall' # NoCall) =>
             xhrCall'.result.native # <<>>]_vars

\* C27: selecting a movie while none is selected does not show the player;
\* the player of the new selection opens only by a later Watch Now.
C27_OpensOnRequest ==
    [][(selected = NoMovie /\ selected' # NoMovie) => ~PlayerOpen']_vars

\* C28: the list of tracked popup handles is always empty and no purge has
\* ever called close on a popup; the one window a purge closes is the
\* application's own, and only when it has an opener.
C28_NoTrackedPopups ==
    /\ page.popupWindows = <<>>
    /\ page.popupsClosed = 0
    /\ page.closed => page.opener

\* With the player open a script called window.open, which the override
\* answered with null; the purge of the first click, the purge of a provider
\* switch and the purge of a fullscreen entry have run.
C28_Witness ==
    /\ PlayerOpen
    /\ openGuarded
    /\ openResult = "null"
    /\ fullscreenPurge = "purged"
    /\ <<"purge", page.effect, 0>> \notin page.timeouts
    /\ page.clickCount > 0
    /\ currentServer # DefaultServer

\* C29: loading is true while a listing request is awaited, and once none
\* is awaited the list holds what the most recently made request, the one
\* for the present filters, came to: its results, or nothing.
C29_ListingConsistent ==
    /\ listingRequests # {} => loading
    /\ (listingRequests = {} /\ issued > 0) =>
           movies \in {NoMovies, Results(ListingUrl(activeTab, searchQuery, selectedGenre))}

\* C30: the watch providers shown in the details pane of the selected movie
\* are those of that movie.
C30_ProvidersOfSelected ==
    (selected # NoMovie /\ watchProviders # NoProviders) =>
        watchProviders = ProvidersOf(selected)

\* C31: every step by which the player becomes open leaves it on the
\* default provider, its iframe targeting https://vidnest.fun/movie/<id>
\* for the selected movie.
C31_DefaultProviderAtOpen ==
    [][(~PlayerOpen /\ PlayerOpen') =>
          /\ currentServer' = DefaultServer
          /\ page'.iframeSrc = ExpectedTarget("vidnest", selected')]_vars


\* The value a script reads from element.src: the accessor's getter returns
\* _src || '', without the accessor the native getter returns the attribute.
C32_ReadSrc == IF element.srcAccessor THEN element.shadowSrc ELSE element.src

\* C32: for a script element created through the wrapped createElement,
\* reading the src property yields the URL most recently passed through to
\* the real element, the empty string if none was.
C32_ReadBackConsistent ==
    (element # NotCreated /\ element.srcAccessor) => C32_ReadSrc = element.src

=============================================================================
